---- MODULE Spec2Model ----
(* noctsleepy: night segmentation (_filter_nights), the SleepMetrics        *)
(* instance with its lazily cached metrics, the longest sleep bout          *)
(* extraction, the night midpoint, the night metadata of the export and the *)
(* circular statistics, modelled on integer seconds.                        *)
(* A timestamp is a number of seconds since the epoch; a time-of-day        *)
(* (datetime.time) is a number of seconds since midnight; a date is a day   *)
(* number. A table is a sequence of rows (records of its columns).          *)
EXTENDS Integers, Sequences, FiniteSets, TLC

VARIABLES
    data,           \* the input table handed to SleepMetrics / _filter_nights
    step,           \* the fixed sampling interval of the input, in seconds
    night_start,    \* start of the nocturnal window (time-of-day)
    night_end,      \* end of the nocturnal window (time-of-day)
    nw_threshold,   \* non-wear threshold, the fraction num / den
    pc,             \* "start", or how the last call ended
    night_data,     \* SleepMetrics.night_data / the table _filter_nights returned
    sampling_time,  \* SleepMetrics.sampling_time, in seconds
    computed,       \* names of the cache fields that are not None
    cache,          \* the cache fields _sleep_duration, _time_in_bed, ...
    longest,        \* the table keep_longest_sleep_window returned
    mid_in,         \* arguments of _get_night_midpoint
    mid_out,        \* the hour, minute, second _get_night_midpoint hands to datetime.time
    peer,           \* the cache fields of a second instance built from the same arguments
    nights_metadata,\* the night_date / night_number table compute_sleep_metrics exports
    circ_in,        \* the times handed to the circular statistics
    circ_out        \* what compute_circular_mean_time / _sd_time did with them

vars == <<data, step, night_start, night_end, nw_threshold, pc, night_data,
          sampling_time, computed, cache, longest, mid_in, mid_out, peer,
          nights_metadata, circ_in, circ_out>>

----------------------------------------------------------------------------
(* Bounds of the model and constants of the program *)

\* most rows of an input table
MaxLen == 6
\* most rows of an input table of the metric specification
MaxRows == 4
\* seconds in a day (24 * 3600)
SecPerDay == 86400
\* day number of 2024-05-02, the first day of the test tables
FirstDay == 19845

\* a time-of-day from hours, minutes and seconds, as datetime.time(h, m, s)
Time(h, m, s) == h * 3600 + m * 60 + s
Hour(t) == t \div 3600
Minute(t) == (t % 3600) \div 60
Second(t) == t % 60

\* day number of 2024-11-03, the day daylight saving time ends in the zone of
\* the recording (America/New_York)
FallDay == 20030
\* the instant the clocks go back: 02:00 daylight time, read as 01:00 again.
\* Timestamps count the seconds on the daylight-time clock.
FallBack == FallDay * SecPerDay + 2 * 3600

\* the wall-clock reading of a timestamp of a timezone-aware time column
WallClock(ts) == IF ts >= FallBack THEN ts - 3600 ELSE ts

\* .dt.time() and .dt.date() of a timestamp
TimeOfDay(ts) == WallClock(ts) % SecPerDay
DateOf(ts) == WallClock(ts) \div SecPerDay

Range(s) == {s[i] : i \in DOMAIN s}

----------------------------------------------------------------------------
(* Input tables: n rows, one every d seconds from t0, flags drawn from Flags *)

MkRow(t, f) ==
    [time |-> t, sib_periods |-> f.sib_periods, spt_periods |-> f.spt_periods,
     nonwear_status |-> f.nonwear_status, sleep_status |-> f.sleep_status]

Tables(n, t0, d, Flags) ==
    {[i \in 1..n |-> MkRow(t0 + (i - 1) * d, fl[i])] : fl \in [1..n -> Flags]}

Flag(sib, spt, nw, sl) ==
    [sib_periods |-> sib, spt_periods |-> spt, nonwear_status |-> nw, sleep_status |-> sl]

\* rows that differ in the non-wear flag only
WearFlags == {Flag(TRUE, TRUE, nw, TRUE) : nw \in BOOLEAN}
\* worn rows with every sib/spt combination, and the non-wear row
MetricFlags == {Flag(sib, spt, FALSE, sib) : sib \in BOOLEAN, spt \in BOOLEAN}
                   \cup {Flag(FALSE, FALSE, TRUE, FALSE)}
\* worn rows that differ in sleep_status only
SleepFlags == {Flag(sl, sl, FALSE, sl) : sl \in BOOLEAN}

Frac(n, d) == [num |-> n, den |-> d]

\* the value a float social_jetlag field holds while it is None
NoJetlag == [nan |-> FALSE, diff |-> <<>>]

NoCache ==
    [sleep_duration |-> <<>>, time_in_bed |-> <<>>, waso |-> <<>>,
     sleep_efficiency |-> <<>>, sleep_onset |-> <<>>, sleep_wakeup |-> <<>>,
     sleep_midpoint |-> <<>>, num_awakenings |-> <<>>, waso_30 |-> Frac(0, 1),
     weekday_midpoint |-> <<>>, weekend_midpoint |-> <<>>, social_jetlag |-> NoJetlag]

\* an instance none of whose cache fields is set
NoInstance == [computed |-> {}, cache |-> NoCache]

\* no call of the circular statistics yet
NoCirc ==
    [mean |-> [raised |-> FALSE, time |-> 0],
     sd |-> [kind |-> "none", r2 |-> Frac(0, 1)]]

NoMid == [hour |-> 0, minute |-> 0, second |-> 0]

InitInputs(Lens, Steps, Starts, Flags, Windows, Thresholds) ==
    /\ step \in Steps
    /\ \E n \in Lens, s \in Starts :
           data \in Tables(n, FirstDay * SecPerDay + s, step, Flags)
    /\ \E w \in Windows : night_start = w[1] /\ night_end = w[2]
    /\ nw_threshold \in Thresholds
    /\ pc = "start"
    /\ night_data = <<>>
    /\ sampling_time = 5
    /\ computed = {}
    /\ cache = NoCache
    /\ longest = <<>>
    /\ mid_in = [start |-> 0, end |-> 0]
    /\ mid_out = NoMid
    /\ peer = NoInstance
    /\ nights_metadata = <<>>
    /\ circ_in = <<>>
    /\ circ_out = NoCirc

----------------------------------------------------------------------------
(* _filter_nights *)

\* InWindow with the end of the window included
InWindowClosedEnd(t, ns, ne) ==
    IF ns > ne THEN (t >= ns \/ t <= ne) ELSE (t >= ns /\ t <= ne)

\* InWindow with equal ends taken as the whole day
InWindowFullDay(t, ns, ne) ==
    IF ns >= ne THEN (t >= ns \/ t < ne) ELSE (t >= ns /\ t < ne)

\* the filter of the crossing and of the non-crossing branch
InWindow(t, ns, ne) ==
    IF ns > ne THEN (t >= ns \/ t < ne) ELSE (t >= ns /\ t < ne)

\* NightDate that never steps back a day
NightDateOwnDate(ts, ns, ne) == DateOf(ts)

\* the night_date column of the crossing and of the non-crossing branch
NightDate(ts, ns, ne) ==
    IF ns > ne
    THEN IF TimeOfDay(ts) >= ns THEN DateOf(ts) ELSE DateOf(ts) - 1
    ELSE DateOf(ts)

WithNightDate(r, ns, ne) ==
    [time |-> r.time, sib_periods |-> r.sib_periods, spt_periods |-> r.spt_periods,
     nonwear_status |-> r.nonwear_status, sleep_status |-> r.sleep_status,
     night_date |-> NightDate(r.time, ns, ne)]

RECURSIVE FilterRows(_, _, _)
FilterRows(t, ns, ne) ==
    IF t = <<>> THEN <<>>
    ELSE IF InWindow(TimeOfDay(Head(t).time), ns, ne)
         THEN <<WithNightDate(Head(t), ns, ne)>> \o FilterRows(Tail(t), ns, ne)
         ELSE FilterRows(Tail(t), ns, ne)

nocturnal_sleep(t, ns, ne) == FilterRows(t, ns, ne)

NightDates(t) == {r.night_date : r \in Range(t)}

\* night_stats: per night_date the number of non-wear rows and of rows
non_wear_count(t, d) ==
    Cardinality({i \in DOMAIN t : t[i].night_date = d /\ t[i].nonwear_status})
total_count(t, d) == Cardinality({i \in DOMAIN t : t[i].night_date = d})

\* WithinThreshold with a strict comparison
WithinThresholdStrict(nw, total, thr) == nw * thr.den < thr.num * total

\* non_wear_count / total_count <= nw_threshold, on exact fractions
WithinThreshold(nw, total, thr) == nw * thr.den <= thr.num * total

valid_nights(t, thr) ==
    {d \in NightDates(t) : WithinThreshold(non_wear_count(t, d), total_count(t, d), thr)}

RECURSIVE JoinNights(_, _)
JoinNights(t, nights) ==
    IF t = <<>> THEN <<>>
    ELSE IF Head(t).night_date \in nights
         THEN <<Head(t)>> \o JoinNights(Tail(t), nights)
         ELSE JoinNights(Tail(t), nights)

RECURSIVE InsertByTime(_, _)
InsertByTime(r, s) ==
    IF s = <<>> THEN <<r>>
    ELSE IF r.time < Head(s).time THEN <<r>> \o s
         ELSE <<Head(s)>> \o InsertByTime(r, Tail(s))

RECURSIVE SortByTime(_)
SortByTime(t) ==
    IF t = <<>> THEN <<>> ELSE InsertByTime(Head(t), SortByTime(Tail(t)))

filter_nights(t, ns, ne, thr) ==
    LET noct == nocturnal_sleep(t, ns, ne)
    IN  SortByTime(JoinNights(noct, valid_nights(noct, thr)))

\* a direct call of _filter_nights on the input table
FilterNights ==
    /\ pc = "start"
    /\ night_data' = filter_nights(data, night_start, night_end, nw_threshold)
    /\ pc' = "filtered"
    /\ UNCHANGED <<data, step, night_start, night_end, nw_threshold, sampling_time,
                   computed, cache, longest, mid_in, mid_out,
                   peer, nights_metadata, circ_in, circ_out>>

----------------------------------------------------------------------------
(* The segmentation specification: every window over a 6-hour grid *)

H(h) == Time(h, 0, 0)

GridTimes == {H(0), H(6), H(12), H(18)}
SegWindows == {<<H(20), H(8)>>, <<H(20), H(23)>>}
                  \cup {<<a, b>> : a \in GridTimes, b \in GridTimes}
SegThresholds == {Frac(0, 1), Frac(1, 3), Frac(1, 2), Frac(1, 1)}

InitSeg ==
    InitInputs(1..MaxLen, {H(6)}, GridTimes, WearFlags, SegWindows, SegThresholds)

NextSeg == FilterNights

SpecSeg == InitSeg /\ [][NextSeg]_vars

\* C1: every row _filter_nights returns has a time-of-day inside the window:
\* night_start <= t < night_end for a non-crossing window, and
\* t >= night_start or t < night_end for a crossing one.
C1_RowsInsideWindow ==
    pc = "filtered" =>
        \A i \in DOMAIN night_data :
            LET t == TimeOfDay(night_data[i].time)
            IN  /\ night_start < night_end => (night_start <= t /\ t < night_end)
                /\ night_start > night_end => (t >= night_start \/ t < night_end)

\* a crossing window whose output holds an evening row and an early-morning row
C1_Witness ==
    /\ pc = "filtered"
    /\ night_start > night_end
    /\ \E i \in DOMAIN night_data : TimeOfDay(night_data[i].time) >= night_start
    /\ \E i \in DOMAIN night_data : TimeOfDay(night_data[i].time) < night_end
    /\ Len(night_data) < Len(data)

\* C2: night_date is the row's own date for a non-crossing window; for a
\* crossing window it is the own date when t >= night_start and the date
\* minus one day when t < night_end, so an evening row and a row of the
\* following early morning carry the same night_date, the evening's date.
C2_NightDateAssigned ==
    pc = "filtered" =>
        /\ \A i \in DOMAIN night_data :
               LET r == night_data[i]
                   t == TimeOfDay(r.time)
               IN  /\ night_start < night_end => r.night_date = DateOf(r.time)
                   /\ (night_start > night_end /\ t >= night_start)
                          => r.night_date = DateOf(r.time)
                   /\ (night_start > night_end /\ t < night_end)
                          => r.night_date = DateOf(r.time) - 1
        /\ night_start > night_end =>
               \A i, j \in DOMAIN night_data :
                   (/\ TimeOfDay(night_data[i].time) >= night_start
                    /\ TimeOfDay(night_data[j].time) < night_end
                    /\ DateOf(night_data[j].time) = DateOf(night_data[i].time) + 1)
                       => /\ night_data[i].night_date = night_data[j].night_date
                          /\ night_data[i].night_date = DateOf(night_data[i].time)

\* an evening row and a row of the next early morning are both returned
C2_Witness ==
    /\ pc = "filtered"
    /\ night_start > night_end
    /\ \E i, j \in DOMAIN night_data :
           /\ TimeOfDay(night_data[i].time) >= night_start
           /\ TimeOfDay(night_data[j].time) < night_end
           /\ DateOf(night_data[j].time) = DateOf(night_data[i].time) + 1

\* the rows of the input that lie in the window and carry night_date d
NightRows(d) ==
    {i \in DOMAIN data :
        /\ InWindow(TimeOfDay(data[i].time), night_start, night_end)
        /\ NightDate(data[i].time, night_start, night_end) = d}
NonWearRows(d) == {i \in NightRows(d) : data[i].nonwear_status}
\* non-wear rows / rows <= nw_threshold
NightIsValid(d) ==
    Cardinality(NonWearRows(d)) * nw_threshold.den
        <= nw_threshold.num * Cardinality(NightRows(d))
Copies(i) == {j \in DOMAIN night_data : night_data[j].time = data[i].time}

----------------------------------------------------------------------------
(* SleepMetrics.__init__ *)

\* how __init__ ends on the segmented table nd, without the empty check
InitOutcomeUnchecked(nd) ==
    IF Len(nd) < 2 THEN "IndexError" ELSE "ok"

\* how __init__ ends on the segmented table nd: the ValueError of the empty
\* check, the IndexError of diff()[1] on a one-row table, or an instance
InitOutcome(nd) ==
    IF nd = <<>> THEN "ValueError"
    ELSE IF Len(nd) < 2 THEN "IndexError"
    ELSE "ok"

\* night_data["time"].dt.time().diff()[1].total_seconds()
SamplingTime(nd) == TimeOfDay(nd[2].time) - TimeOfDay(nd[1].time)

\* SleepMetrics(data, night_start, night_end, nw_threshold); a call that
\* raises leaves no instance behind
Construct ==
    /\ pc = "start"
    /\ LET nd == filter_nights(data, night_start, night_end, nw_threshold)
           out == InitOutcome(nd)
       IN  /\ pc' = out
           /\ night_data' = IF out = "ok" THEN nd ELSE <<>>
           /\ sampling_time' = IF out = "ok" THEN SamplingTime(nd) ELSE sampling_time
    /\ UNCHANGED <<data, step, night_start, night_end, nw_threshold, computed, cache,
                   longest, mid_in, mid_out,
                   peer, nights_metadata, circ_in, circ_out>>

----------------------------------------------------------------------------
(* The metric properties of SleepMetrics *)

RECURSIVE SortedSeq(_)
\* the elements of a set of numbers in ascending order: .sort("night_date")
SortedSeq(S) ==
    IF S = {} THEN <<>>
    ELSE LET m == CHOOSE x \in S : \A y \in S : x <= y
         IN  <<m>> \o SortedSeq(S \ {m})

\* self.sampling_time / 60; sample times are whole minutes, so it is exact
MinutesPerSample(st) == st \div 60

\* pl.when(spt_periods & sib_periods).then(1).otherwise(0).sum() of night d
SibWithinSptCount(t, d) ==
    Cardinality({i \in DOMAIN t :
        t[i].night_date = d /\ t[i].spt_periods /\ t[i].sib_periods})

\* pl.col("spt_periods").sum() of night d
SptCount(t, d) ==
    Cardinality({i \in DOMAIN t : t[i].night_date = d /\ t[i].spt_periods})

sleep_duration(t, st) ==
    LET nights == SortedSeq(NightDates(t))
    IN  [k \in DOMAIN nights |-> SibWithinSptCount(t, nights[k]) * MinutesPerSample(st)]

time_in_bed(t, st) ==
    LET nights == SortedSeq(NightDates(t))
    IN  [k \in DOMAIN nights |-> SptCount(t, nights[k]) * MinutesPerSample(st)]

\* element-wise difference of two series
SeriesMinus(a, b) == [k \in DOMAIN a |-> a[k] - b[k]]

\* a / b * 100 on floats, kept as the exact fraction num / den; 0 / 0 is NaN
PercentRatioSwapped(a, b) == [nan |-> a = 0 /\ b = 0, num |-> b * 100, den |-> a]

PercentRatio(a, b) == [nan |-> a = 0 /\ b = 0, num |-> a * 100, den |-> b]

\* (sleep_duration / time_in_bed) * 100, element-wise
SeriesPercent(a, b) == [k \in DOMAIN a |-> PercentRatio(a[k], b[k])]

SptRows(t) == SelectSeq(t, LAMBDA r : r.spt_periods)

MinOf(S) == CHOOSE x \in S : \A y \in S : x <= y
MaxOf(S) == CHOOSE x \in S : \A y \in S : x >= y

\* the time column of night d
TimesOf(t, d) == {t[i].time : i \in {j \in DOMAIN t : t[j].night_date = d}}

\* the earliest time-of-day of a night instead of its earliest timestamp
OnsetOfNightByClock(t, d) == MinOf({TimeOfDay(x) : x \in TimesOf(t, d)})

\* pl.col("time").min() of night d, then .dt.time()
OnsetOfNight(t, d) == TimeOfDay(MinOf(TimesOf(t, d)))

\* pl.col("time").max() of night d, then .dt.time()
WakeupOfNight(t, d) == TimeOfDay(MaxOf(TimesOf(t, d)))

sleep_onset(t) ==
    LET f == SptRows(t)
        nights == SortedSeq(NightDates(f))
    IN  [k \in DOMAIN nights |-> OnsetOfNight(f, nights[k])]

sleep_wakeup(t) ==
    LET f == SptRows(t)
        nights == SortedSeq(NightDates(f))
    IN  [k \in DOMAIN nights |-> WakeupOfNight(f, nights[k])]

----------------------------------------------------------------------------
(* _get_night_midpoint *)

\* MidpointSeconds without the 24 hours added to an end before the start
MidpointSecondsNoWrap(start, end) ==
    LET start_s == Hour(start) * 3600 + Minute(start) * 60 + Second(start)
        end_s == Hour(end) * 3600 + Minute(end) * 60 + Second(end)
    IN  (start_s + end_s) \div 2

\* midpoint_s: (start_s + end_s) // 2, end_s moved a day on when before start_s
MidpointSeconds(start, end) ==
    LET start_s == Hour(start) * 3600 + Minute(start) * 60 + Second(start)
        end_0 == Hour(end) * 3600 + Minute(end) * 60 + Second(end)
        end_s == IF end_0 < start_s THEN end_0 + 24 * 3600 ELSE end_0
    IN  (start_s + end_s) \div 2

\* the hour, minute and second handed to datetime.time(...)
get_night_midpoint(start, end) ==
    LET midpoint_s == MidpointSeconds(start, end)
    IN  [hour |-> (midpoint_s % (24 * 3600)) \div 3600,
         minute |-> (midpoint_s % 3600) \div 60,
         second |-> midpoint_s % 60]

\* datetime.time(hour, minute, second) of such a triple
TimeOfTriple(m) == Time(m.hour, m.minute, m.second)

\* [_get_night_midpoint(start, end) for start, end in zip(onset, wakeup)]
sleep_midpoint(onset, wakeup) ==
    [k \in DOMAIN onset |-> TimeOfTriple(get_night_midpoint(onset[k], wakeup[k]))]

\* a call of _get_night_midpoint
Midpoint ==
    /\ pc = "start"
    /\ mid_out' = get_night_midpoint(mid_in.start, mid_in.end)
    /\ pc' = "midpoint"
    /\ UNCHANGED <<data, step, night_start, night_end, nw_threshold, night_data,
                   sampling_time, computed, cache, longest, mid_in,
                   peer, nights_metadata, circ_in, circ_out>>

----------------------------------------------------------------------------
(* The continuity metrics and the weekday / weekend metrics *)

\* the rows of night d in the order of the table: a group of group_by("night_date")
NightGroup(t, d) == SelectSeq(t, LAMBDA r : r.night_date = d)

\* the positions of a group at which sib_periods rises from false to true
SibRises(g) == {i \in 2..Len(g) : ~g[i - 1].sib_periods /\ g[i].sib_periods}

\* cast(pl.Int8).diff().eq(-1): the positions of a group at which sib_periods
\* falls from true to false; diff() is null at the first position
SibDrops(g) == {i \in 2..Len(g) : g[i - 1].sib_periods /\ ~g[i].sib_periods}

num_awakenings(t) ==
    LET f == SptRows(t)
        nights == SortedSeq(NightDates(f))
    IN  [k \in DOMAIN nights |-> Cardinality(SibDrops(NightGroup(f, nights[k])))]

\* a night counted from 30 minutes on
AtLeastThirty(w) == w >= 30

\* self.waso > 30, for one night
ExceedsThirty(w) == w > 30

\* ((self.waso > 30).sum() / num_nights) * 30, kept as the fraction num / den
waso_30(w, t) ==
    Frac(Cardinality({k \in DOMAIN w : ExceedsThirty(w[k])}) * 30,
         Cardinality(NightDates(t)))

\* .dt.weekday() of a date: the ISO day of the week, Monday = 1 to Sunday = 7
\* (day 0, 1970-01-01, is a Thursday)
Weekday(d) == ((d + 3) % 7) + 1

\* the defaults of weekday_list and of weekend_list
weekday_list == {0, 1, 2, 3, 4}
weekend_list == {5, 6}

\* night_data.filter(pl.col("night_date").dt.weekday().is_in(days))
DayRows(t, days) == SelectSeq(t, LAMBDA r : Weekday(r.night_date) \in days)

\* the midpoints of the nights of the given days that have a sample in bed
DayMidpoint(t, days) ==
    LET day_data == DayRows(t, days)
    IN  IF day_data = <<>> THEN <<>>
        ELSE sleep_midpoint(sleep_onset(day_data), sleep_wakeup(day_data))

weekday_midpoint(t) == DayMidpoint(t, weekday_list)
weekend_midpoint(t) == DayMidpoint(t, weekend_list)

\* Series - Series needs equal lengths, a series of one element is broadcast
SameShape(a, b) == Len(a) = Len(b) \/ Len(a) = 1 \/ Len(b) = 1

BroadcastAt(a, k) == IF Len(a) = 1 THEN a[1] ELSE a[k]

\* weekend_midpoint - weekday_midpoint, element-wise, in seconds
SeriesBroadcastMinus(a, b) ==
    [k \in 1..(IF Len(a) > Len(b) THEN Len(a) ELSE Len(b))
        |-> BroadcastAt(a, k) - BroadcastAt(b, k)]

----------------------------------------------------------------------------
(* The lazily computed properties: each stores its value on the first read *)

\* the fields of an instance at the start of a read; raised names the
\* exception a read ended in
Instance(c, v) == [computed |-> c, cache |-> v, raised |-> "none"]

Raise(s, e) == [s EXCEPT !.raised = e]

\* self._m = v: the field is set, every other field keeps its value
Store(s, m, v) ==
    [s EXCEPT !.computed = @ \cup {m}, !.cache = [@ EXCEPT ![m] = v]]

GetSleepDuration(s) ==
    IF "sleep_duration" \in s.computed THEN s
    ELSE Store(s, "sleep_duration", sleep_duration(night_data, sampling_time))

GetTimeInBed(s) ==
    IF "time_in_bed" \in s.computed THEN s
    ELSE Store(s, "time_in_bed", time_in_bed(night_data, sampling_time))

\* a waso that is an empty result while a dependency is not computed yet
GetWasoUnavailable(s) ==
    IF "waso" \in s.computed THEN s
    ELSE IF {"time_in_bed", "sleep_duration"} \subseteq s.computed
         THEN Store(s, "waso", SeriesMinus(s.cache.time_in_bed, s.cache.sleep_duration))
         ELSE Store(s, "waso", <<>>)

\* self.time_in_bed - self.sleep_duration
GetWaso(s) ==
    IF "waso" \in s.computed THEN s
    ELSE LET s1 == GetTimeInBed(s)
             s2 == GetSleepDuration(s1)
         IN  Store(s2, "waso", SeriesMinus(s2.cache.time_in_bed, s2.cache.sleep_duration))

\* (self.sleep_duration / self.time_in_bed) * 100
GetSleepEfficiency(s) ==
    IF "sleep_efficiency" \in s.computed THEN s
    ELSE LET s1 == GetSleepDuration(s)
             s2 == GetTimeInBed(s1)
         IN  Store(s2, "sleep_efficiency",
                   SeriesPercent(s2.cache.sleep_duration, s2.cache.time_in_bed))

GetSleepOnset(s) ==
    IF "sleep_onset" \in s.computed THEN s
    ELSE Store(s, "sleep_onset", sleep_onset(night_data))

GetSleepWakeup(s) ==
    IF "sleep_wakeup" \in s.computed THEN s
    ELSE Store(s, "sleep_wakeup", sleep_wakeup(night_data))

GetSleepMidpoint(s) ==
    IF "sleep_midpoint" \in s.computed THEN s
    ELSE LET s1 == GetSleepOnset(s)
             s2 == GetSleepWakeup(s1)
         IN  Store(s2, "sleep_midpoint",
                   sleep_midpoint(s2.cache.sleep_onset, s2.cache.sleep_wakeup))

GetNumAwakenings(s) ==
    IF "num_awakenings" \in s.computed THEN s
    ELSE Store(s, "num_awakenings", num_awakenings(night_data))

GetWaso30(s) ==
    IF "waso_30" \in s.computed THEN s
    ELSE LET s1 == GetWaso(s)
         IN  Store(s1, "waso_30", waso_30(s1.cache.waso, night_data))

GetWeekdayMidpoint(s) ==
    IF "weekday_midpoint" \in s.computed THEN s
    ELSE Store(s, "weekday_midpoint", weekday_midpoint(night_data))

GetWeekendMidpoint(s) ==
    IF "weekend_midpoint" \in s.computed THEN s
    ELSE Store(s, "weekend_midpoint", weekend_midpoint(night_data))

\* float("nan") if weekday_midpoint or weekend_midpoint is empty (the second
\* is not read when the first is empty), else weekend_midpoint - weekday_midpoint
GetSocialJetlag(s) ==
    IF "social_jetlag" \in s.computed THEN s
    ELSE LET s1 == GetWeekdayMidpoint(s)
             s2 == GetWeekendMidpoint(s1)
             nan == [nan |-> TRUE, diff |-> <<>>]
         IN  IF s1.cache.weekday_midpoint = <<>> THEN Store(s1, "social_jetlag", nan)
             ELSE IF s2.cache.weekend_midpoint = <<>> THEN Store(s2, "social_jetlag", nan)
             ELSE IF ~SameShape(s2.cache.weekend_midpoint, s2.cache.weekday_midpoint)
                  THEN Raise(s2, "ShapeError")
             ELSE Store(s2, "social_jetlag",
                        [nan |-> FALSE,
                         diff |-> SeriesBroadcastMinus(s2.cache.weekend_midpoint,
                                                       s2.cache.weekday_midpoint)])

\* getattr(self, key)
Getattr(s, key) ==
    CASE key = "sleep_duration" -> GetSleepDuration(s)
      [] key = "time_in_bed" -> GetTimeInBed(s)
      [] key = "waso" -> GetWaso(s)
      [] key = "sleep_efficiency" -> GetSleepEfficiency(s)
      [] key = "sleep_onset" -> GetSleepOnset(s)
      [] key = "sleep_wakeup" -> GetSleepWakeup(s)
      [] key = "sleep_midpoint" -> GetSleepMidpoint(s)
      [] key = "num_awakenings" -> GetNumAwakenings(s)
      [] key = "waso_30" -> GetWaso30(s)
      [] key = "weekday_midpoint" -> GetWeekdayMidpoint(s)
      [] key = "weekend_midpoint" -> GetWeekendMidpoint(s)
      [] key = "social_jetlag" -> GetSocialJetlag(s)

RECURSIVE GetAll(_, _)
\* the properties read one after the other, in the order requested, up to
\* the first read that raises
GetAll(s, keys) ==
    IF keys = <<>> \/ s.raised # "none" THEN s
    ELSE GetAll(Getattr(s, Head(keys)), Tail(keys))

\* the metric names of the categories of METRIC_MAPPING
METRIC_MAPPING ==
    [sleep_duration |-> <<"sleep_duration", "time_in_bed">>,
     sleep_continuity |-> <<"waso", "sleep_efficiency", "num_awakenings", "waso_30">>,
     sleep_timing |-> <<"sleep_onset", "sleep_wakeup", "sleep_midpoint",
                        "weekday_midpoint", "weekend_midpoint", "social_jetlag">>]

\* save_to_json(filename, requested_metrics): reads every requested metric;
\* a read that raises ends the call
SaveToJson(requested_metrics) ==
    /\ pc = "ok"
    /\ LET s == GetAll(Instance(computed, cache), requested_metrics)
       IN  /\ computed' = s.computed
           /\ cache' = s.cache
           /\ pc' = IF s.raised = "none" THEN pc ELSE s.raised
    /\ UNCHANGED <<data, step, night_start, night_end, nw_threshold, night_data,
                   sampling_time, longest, mid_in, mid_out,
                   peer, nights_metadata, circ_in, circ_out>>

\* the names of the metric properties
MetricNames == DOMAIN NoCache

\* a read that stores into fields shared by every instance of the class
ReadShared(key) ==
    /\ pc = "ok"
    /\ LET s == Getattr(Instance(computed, cache), key)
       IN  /\ computed' = s.computed
           /\ cache' = s.cache
           /\ peer' = [computed |-> s.computed, cache |-> s.cache]
           /\ pc' = IF s.raised = "none" THEN pc ELSE s.raised
    /\ UNCHANGED <<data, step, night_start, night_end, nw_threshold, night_data,
                   sampling_time, longest, mid_in, mid_out,
                   nights_metadata, circ_in, circ_out>>

\* one read of the property key of the instance
Read(key) ==
    /\ pc = "ok"
    /\ LET s == Getattr(Instance(computed, cache), key)
       IN  /\ computed' = s.computed
           /\ cache' = s.cache
           /\ pc' = IF s.raised = "none" THEN pc ELSE s.raised
    /\ UNCHANGED <<data, step, night_start, night_end, nw_threshold, night_data,
                   sampling_time, longest, mid_in, mid_out,
                   peer, nights_metadata, circ_in, circ_out>>

\* one read of the property key of the second instance: self._key = ... sets
\* an attribute of that instance only
ReadPeer(key) ==
    /\ pc = "ok"
    /\ LET s == Getattr(Instance(peer.computed, peer.cache), key)
       IN  /\ peer' = [computed |-> s.computed, cache |-> s.cache]
           /\ pc' = IF s.raised = "none" THEN pc ELSE s.raised
    /\ UNCHANGED <<data, step, night_start, night_end, nw_threshold, night_data,
                   sampling_time, computed, cache, longest, mid_in, mid_out,
                   nights_metadata, circ_in, circ_out>>

----------------------------------------------------------------------------
(* The metric specification: an instance is built and its metrics are saved *)

MetricWindows == {<<H(18), H(12)>>, <<H(20), H(8)>>, <<H(6), H(18)>>}

Init ==
    InitInputs(1..MaxRows, {H(6)}, GridTimes, MetricFlags, MetricWindows, {Frac(1, 2)})

Next ==
    \/ Construct
    \/ \E c \in DOMAIN METRIC_MAPPING : SaveToJson(METRIC_MAPPING[c])

Spec == Init /\ [][Next]_vars

----------------------------------------------------------------------------
(* The midpoint specification: _get_night_midpoint on pairs of times *)

MidTimes ==
    {Time(0, 0, 0), Time(0, 0, 1), Time(2, 5, 0), Time(6, 10, 0), Time(6, 10, 1),
     Time(7, 59, 0), Time(11, 59, 59), Time(12, 0, 0), Time(20, 0, 0),
     Time(22, 0, 0), Time(23, 59, 58), Time(23, 59, 59)}

InitMid ==
    /\ mid_in \in [start : MidTimes, end : MidTimes]
    /\ mid_out = NoMid
    /\ pc = "start"
    /\ data = <<>>
    /\ step = H(6)
    /\ night_start = H(20)
    /\ night_end = H(8)
    /\ nw_threshold = Frac(1, 5)
    /\ night_data = <<>>
    /\ sampling_time = 5
    /\ computed = {}
    /\ cache = NoCache
    /\ longest = <<>>
    /\ peer = NoInstance
    /\ nights_metadata = <<>>
    /\ circ_in = <<>>
    /\ circ_out = NoCirc

NextMid == Midpoint

SpecMid == InitMid /\ [][NextMid]_vars

----------------------------------------------------------------------------
(* Claims on the construction of an instance *)

\* C4: when segmentation returns no rows the constructor raises the
\* ValueError "No valid nights found in the data."; no instance has an empty
\* night_data, and no metric is computed on an empty night set.
C4_EmptySegmentationRaises ==
    /\ (pc # "start"
            /\ filter_nights(data, night_start, night_end, nw_threshold) = <<>>)
           => pc = "ValueError"
    /\ pc = "ok" => night_data # <<>>
    /\ computed # {} => (pc = "ok" /\ night_data # <<>>)

\* rows lie in the window, every night is over the threshold, ValueError
C4_Witness ==
    /\ pc = "ValueError"
    /\ \E i \in DOMAIN data :
           InWindow(TimeOfDay(data[i].time), night_start, night_end)

\* length of one occurrence of the window, in seconds
WindowLength == (night_end - night_start) % SecPerDay

\* the samples span a whole occurrence of the window: it starts no earlier
\* than the first sample and ends no later than the last sample's interval
CoversFullWindow ==
    \E d \in DateOf(data[1].time) - 1 .. DateOf(data[Len(data)].time) :
        /\ data[1].time <= d * SecPerDay + night_start
        /\ d * SecPerDay + night_start + WindowLength <= data[Len(data)].time + step

\* C5 as stated: a table covering less than one full occurrence of the
\* night window makes the constructor raise the no-valid-nights error.
C5_PartialWindowRaises ==
    (pc # "start" /\ ~CoversFullWindow) => pc = "ValueError"

\* C5 as amended: a table none of whose samples lies inside the night
\* window makes the constructor raise the no-valid-nights error.
C5_NoSampleInWindowRaises ==
    (/\ pc # "start"
     /\ \A i \in DOMAIN data :
            LET t == TimeOfDay(data[i].time)
            IN  IF night_start > night_end
                THEN ~(t >= night_start \/ t < night_end)
                ELSE ~(t >= night_start /\ t < night_end))
        => pc = "ValueError"

\* a table lying wholly outside the window was refused
C5_Witness ==
    /\ pc = "ValueError"
    /\ Len(data) >= 2
    /\ \A i \in DOMAIN data :
           ~InWindow(TimeOfDay(data[i].time), night_start, night_end)

----------------------------------------------------------------------------
(* Claims on the duration metrics *)

\* the valid nights of the instance, ascending
ValidNights == SortedSeq({night_data[i].night_date : i \in DOMAIN night_data})
AsleepInBed(d) ==
    {i \in DOMAIN night_data :
        /\ night_data[i].night_date = d
        /\ night_data[i].sib_periods /\ night_data[i].spt_periods}
InBed(d) ==
    {i \in DOMAIN night_data :
        night_data[i].night_date = d /\ night_data[i].spt_periods}

\* C7: per valid night, sleep_duration = (samples with sib_periods and
\* spt_periods) x sampling interval / 60, time_in_bed = (samples with
\* spt_periods) x sampling interval / 60, waso = time_in_bed - sleep_duration,
\* in minutes (a night fully asleep, one sample a minute over 20:00-08:00: 720).
C7_DurationsInMinutes ==
    pc = "ok" =>
        /\ "sleep_duration" \in computed =>
               /\ Len(cache.sleep_duration) = Len(ValidNights)
               /\ \A k \in DOMAIN ValidNights :
                      cache.sleep_duration[k] * 60
                          = Cardinality(AsleepInBed(ValidNights[k])) * step
        /\ "time_in_bed" \in computed =>
               /\ Len(cache.time_in_bed) = Len(ValidNights)
               /\ \A k \in DOMAIN ValidNights :
                      cache.time_in_bed[k] * 60
                          = Cardinality(InBed(ValidNights[k])) * step
        /\ "waso" \in computed =>
               \A k \in DOMAIN ValidNights :
                   cache.waso[k] = cache.time_in_bed[k] - cache.sleep_duration[k]

\* C8: sleep_efficiency of a night is sleep_duration / time_in_bed x 100;
\* on a night whose time_in_bed is 0 reading it raises nothing and gives
\* the unavailable value (NaN) or 0.
C8_EfficiencyDefined ==
    "sleep_efficiency" \in computed =>
        /\ pc = "ok"
        /\ Len(cache.sleep_efficiency) = Len(ValidNights)
        /\ \A k \in DOMAIN ValidNights :
               LET e == cache.sleep_efficiency[k]
                   sd == cache.sleep_duration[k]
                   tib == cache.time_in_bed[k]
               IN  /\ tib # 0 => (~e.nan /\ e.den # 0 /\ e.num * tib = 100 * sd * e.den)
                   /\ tib = 0 => (e.nan \/ (e.den # 0 /\ e.num = 0))
                   /\ InBed(ValidNights[k]) = {} => tib = 0

\* one night without a sample in bed is NaN, another night has a ratio
C8_Witness ==
    /\ "sleep_efficiency" \in computed
    /\ \E k, m \in DOMAIN ValidNights :
           /\ InBed(ValidNights[k]) = {}
           /\ cache.sleep_efficiency[k].nan
           /\ cache.time_in_bed[m] # 0
           /\ ~cache.sleep_efficiency[m].nan
           /\ cache.sleep_duration[m] # cache.time_in_bed[m]

\* the valid nights that have a sample with spt_periods true, ascending
NightsInBed ==
    SortedSeq({night_data[i].night_date :
                  i \in {j \in DOMAIN night_data : night_data[j].spt_periods}})

\* C9: sleep_onset holds, for the valid nights with a sample in bed in
\* ascending order, the time-of-day of the chronologically first sample of
\* the night with spt_periods true, and sleep_wakeup that of the last one.
C9_OnsetFirstWakeupLast ==
    /\ "sleep_onset" \in computed =>
           /\ Len(cache.sleep_onset) = Len(NightsInBed)
           /\ \A k \in DOMAIN NightsInBed :
                  \E i \in InBed(NightsInBed[k]) :
                      /\ cache.sleep_onset[k] = TimeOfDay(night_data[i].time)
                      /\ \A j \in InBed(NightsInBed[k]) :
                             night_data[i].time <= night_data[j].time
    /\ "sleep_wakeup" \in computed =>
           /\ Len(cache.sleep_wakeup) = Len(NightsInBed)
           /\ \A k \in DOMAIN NightsInBed :
                  \E i \in InBed(NightsInBed[k]) :
                      /\ cache.sleep_wakeup[k] = TimeOfDay(night_data[i].time)
                      /\ \A j \in InBed(NightsInBed[k]) :
                             night_data[i].time >= night_data[j].time

\* a night in bed from the evening into the morning: onset in the evening
\* part, wakeup in the morning part, so wakeup is the earlier time-of-day
C9_Witness ==
    /\ {"sleep_onset", "sleep_wakeup"} \subseteq computed
    /\ night_start > night_end
    /\ \E k \in DOMAIN NightsInBed :
           /\ cache.sleep_onset[k] >= night_start
           /\ cache.sleep_wakeup[k] < night_end
           /\ cache.sleep_wakeup[k] < cache.sleep_onset[k]

----------------------------------------------------------------------------
(* Claims on the midpoint *)

\* C10: _get_night_midpoint(start, end) is the time-of-day of
\* floor((s + e') / 2) mod 86400, e' = e + 86400 if e < s else e; it is a
\* valid time-of-day on the forward arc from start to end
\* (22:00, 06:10 gives 02:05; t, t gives t).
C10_MidpointOnForwardArc ==
    pc = "midpoint" =>
        LET s == mid_in.start
            e == mid_in.end
            e1 == IF e < s THEN e + 86400 ELSE e
            m == ((s + e1) \div 2) % 86400
        IN  /\ mid_out.hour \in 0..23
            /\ mid_out.minute \in 0..59
            /\ mid_out.second \in 0..59
            /\ mid_out.hour * 3600 + mid_out.minute * 60 + mid_out.second = m
            /\ (m - s) % 86400 <= (e - s) % 86400
            /\ s = e => m = s
            /\ (s = Time(22, 0, 0) /\ e = Time(6, 10, 0))
                   => mid_out = [hour |-> 2, minute |-> 5, second |-> 0]

\* the midpoint of an interval over midnight with an odd number of seconds
C10_Witness ==
    /\ pc = "midpoint"
    /\ mid_in.end < mid_in.start
    /\ (mid_in.start + mid_in.end) % 2 = 1
    /\ mid_out.hour * 3600 + mid_out.minute * 60 + mid_out.second < mid_in.end

----------------------------------------------------------------------------
(* keep_longest_sleep_window *)

\* the null the first row gets: diff() has no value there and cum_sum skips it
NullBout == -1

\* row j (j > 1) opens a bout: the night_date changes or sleep_status turns true
OpensBout(t, j) ==
    \/ t[j].night_date - t[j - 1].night_date # 0
    \/ (t[j].sleep_status /\ ~t[j - 1].sleep_status)

\* the candidate_sleep_bout column: the running count of bout openings
candidate_sleep_bout(t, i) ==
    IF i = 1 THEN NullBout
    ELSE Cardinality({j \in 2..i : OpensBout(t, j)})

\* bout_lengths: rows with sleep_status of night d in candidate bout b
bout_length(t, d, b) ==
    Cardinality({i \in DOMAIN t :
        /\ t[i].sleep_status
        /\ t[i].night_date = d
        /\ candidate_sleep_bout(t, i) = b})

\* the candidate bouts of night d that hold a row with sleep_status
BoutsOf(t, d) ==
    {candidate_sleep_bout(t, i) :
        i \in {j \in DOMAIN t : t[j].sleep_status /\ t[j].night_date = d}}

\* the nights of longest_bout_per_night_date
SleepNights(t) == {d \in NightDates(t) : BoutsOf(t, d) # {}}

\* what sort_by("bout_length").last() may pick: any bout of the greatest
\* length, the order among equal lengths being unspecified
LongestBouts(t, d) ==
    {b \in BoutsOf(t, d) :
        \A c \in BoutsOf(t, d) : bout_length(t, d, c) <= bout_length(t, d, b)}

RECURSIVE KeptFrom(_, _, _)
\* the join on night_date and the filter candidate_sleep_bout == longest_bout
\* & sleep_status, from row i on; a null bout equals nothing
KeptFrom(t, i, longest_bout) ==
    IF i > Len(t) THEN <<>>
    ELSE IF /\ t[i].night_date \in DOMAIN longest_bout
            /\ candidate_sleep_bout(t, i) # NullBout
            /\ longest_bout[t[i].night_date] # NullBout
            /\ candidate_sleep_bout(t, i) = longest_bout[t[i].night_date]
            /\ t[i].sleep_status
         THEN <<t[i]>> \o KeptFrom(t, i + 1, longest_bout)
         ELSE KeptFrom(t, i + 1, longest_bout)

\* keep_longest_sleep_window(night_data) on a segmented table
KeepLongest ==
    /\ pc = "filtered"
    /\ \E longest_bout \in [SleepNights(night_data) -> NullBout..Len(night_data)] :
           /\ \A d \in SleepNights(night_data) :
                  longest_bout[d] \in LongestBouts(night_data, d)
           /\ longest' = KeptFrom(night_data, 1, longest_bout)
    /\ pc' = "longest"
    /\ UNCHANGED <<data, step, night_start, night_end, nw_threshold, night_data,
                   sampling_time, computed, cache, mid_in, mid_out,
                   peer, nights_metadata, circ_in, circ_out>>

----------------------------------------------------------------------------
(* The bout specification: tables on a 4-hour grid are segmented, then cut *)

BoutTimes == {H(0), H(4), H(8), H(12), H(16), H(20)}
BoutWindows == {<<H(20), H(12)>>, <<H(4), H(20)>>}

InitBout ==
    InitInputs(1..MaxLen, {H(4)}, BoutTimes, SleepFlags, BoutWindows, {Frac(1, 2)})

NextBout ==
    \/ FilterNights
    \/ KeepLongest

SpecBout == InitBout /\ [][NextBout]_vars

\* the rows of the contiguous run of sleep_status rows of one night around row i
RunOf(i) ==
    {j \in DOMAIN night_data :
        \A k \in (IF i < j THEN i ELSE j) .. (IF i < j THEN j ELSE i) :
            /\ night_data[k].sleep_status
            /\ night_data[k].night_date = night_data[i].night_date}

\* C6: per night_date keep_longest_sleep_window returns only rows with
\* sleep_status true, all of one contiguous run of such rows of the night,
\* and no other run of the night is longer; a night without a
\* sleep_status row contributes nothing.
C6_OnlyLongestRun ==
    pc = "longest" =>
        /\ \A k \in DOMAIN longest :
               /\ longest[k].sleep_status
               /\ \E i \in DOMAIN night_data : night_data[i] = longest[k]
        /\ \A d \in NightDates(longest) :
               \E i \in DOMAIN night_data :
                   /\ night_data[i].night_date = d
                   /\ night_data[i].sleep_status
                   /\ \A k \in DOMAIN longest :
                          longest[k].night_date = d
                              => \E j \in RunOf(i) : night_data[j] = longest[k]
                   /\ \A m \in DOMAIN night_data :
                          (night_data[m].night_date = d /\ night_data[m].sleep_status)
                              => Cardinality(RunOf(m)) <= Cardinality(RunOf(i))

----------------------------------------------------------------------------
(* The night specification: one night on a 30-minute grid or several nights *)
(* on the 6-hour grid, and the continuity metrics saved                     *)

\* most rows of a table of the 30-minute grid
MaxNight == 5

\* worn rows with every sib/spt combination
NightFlags == {Flag(sib, spt, FALSE, sib) : sib \in BOOLEAN, spt \in BOOLEAN}

InitNight ==
    \/ InitInputs(1..MaxNight, {Time(0, 30, 0)}, {Time(19, 30, 0), H(20)}, NightFlags,
                  {<<H(20), Time(22, 30, 0)>>}, {Frac(1, 2)})
    \/ InitInputs(1..MaxRows, {H(6)}, GridTimes, NightFlags, {<<H(18), H(12)>>},
                  {Frac(1, 2)})

NextNight ==
    \/ Construct
    \/ SaveToJson(METRIC_MAPPING.sleep_continuity)

SpecNight == InitNight /\ [][NextNight]_vars

\* the in-bed rows of night d that are awake and directly follow, among the
\* in-bed rows of the night in time order, a row that is asleep
GapStarts(d) ==
    {j \in InBed(d) :
        /\ ~night_data[j].sib_periods
        /\ \E i \in InBed(d) :
               /\ i < j
               /\ night_data[i].sib_periods
               /\ \A m \in InBed(d) : ~(i < m /\ m < j)}

\* C11: for every valid night with a sample in bed, num_awakenings is the
\* number of positions, among the night's spt_periods rows in time order, at
\* which sib_periods goes from true to false: one per sib_periods-false gap
\* that starts after a sib_periods-true sample (two gaps give 2, none gives 0).
C11_AwakeningsCountGaps ==
    "num_awakenings" \in computed =>
        /\ Len(cache.num_awakenings) = Len(NightsInBed)
        /\ \A k \in DOMAIN NightsInBed :
               cache.num_awakenings[k] = Cardinality(GapStarts(NightsInBed[k]))

\* a night with two gaps, the first in-bed row of which is awake
C11_Witness ==
    /\ "num_awakenings" \in computed
    /\ \E k \in DOMAIN NightsInBed :
           /\ cache.num_awakenings[k] = 2
           /\ \E i \in InBed(NightsInBed[k]) :
                  /\ ~night_data[i].sib_periods
                  /\ \A j \in InBed(NightsInBed[k]) : i <= j

\* C12: waso_30 = (number of valid nights whose waso is strictly greater
\* than 30 minutes) / (number of distinct valid night_date values) x 30; it
\* is 0 when no night exceeds 30 minutes, 30 when every night does, and
\* always lies in [0, 30].
C12_Waso30 ==
    "waso_30" \in computed =>
        LET long == {k \in DOMAIN ValidNights : cache.waso[k] > 30}
            v == cache.waso_30
        IN  /\ v.den = Len(ValidNights)
            /\ v.den > 0
            /\ v.num = Cardinality(long) * 30
            /\ 0 <= v.num /\ v.num <= 30 * v.den
            /\ long = {} => v.num = 0
            /\ long = DOMAIN ValidNights => v.num = 30 * v.den

\* two valid nights, one awake for more than 30 minutes and one not: 15
C12_Witness ==
    /\ "waso_30" \in computed
    /\ Len(ValidNights) = 2
    /\ \E k, m \in DOMAIN ValidNights : cache.waso[k] > 30 /\ cache.waso[m] <= 30
    /\ cache.waso_30.num = 15 * cache.waso_30.den

----------------------------------------------------------------------------
(* The week specification: one sample a night over up to a week from every  *)
(* day of the week, or two nights on the 6-hour grid; the timing metrics     *)
(* are saved                                                                *)

\* most rows of a table of the 12-hour grid
MaxWeek == 9

\* a row in bed and asleep, and a row out of bed
WeekFlags == {Flag(TRUE, TRUE, FALSE, TRUE), Flag(FALSE, FALSE, FALSE, FALSE)}

\* 06:00 of each of the seven days from the first day on
WeekStarts == {k * SecPerDay + H(6) : k \in 0..6}

InitWeek ==
    \/ InitInputs(1..MaxWeek, {H(12)}, WeekStarts, WeekFlags, {<<H(6), H(18)>>},
                  {Frac(1, 2)})
    \/ InitInputs(1..MaxRows, {H(6)}, GridTimes, NightFlags, {<<H(6), H(18)>>},
                  {Frac(1, 2)})

NextWeek ==
    \/ Construct
    \/ SaveToJson(METRIC_MAPPING.sleep_timing)

SpecWeek == InitWeek /\ [][NextWeek]_vars

\* the day of the week of a date with Monday = 0 and Sunday = 6, the
\* numbering the day-sets are documented in
DayOfWeek(d) == (d + 3) % 7

\* C13: with the default day-sets weekday_midpoint holds one midpoint for
\* exactly the valid nights in bed whose night_date is a Monday to Friday and
\* weekend_midpoint one for exactly those whose night_date is a Saturday or
\* Sunday, so every such night is counted in exactly one of the two.
C13_WeekdayWeekendPartition ==
    /\ "weekday_midpoint" \in computed =>
           Len(cache.weekday_midpoint)
               = Cardinality({k \in DOMAIN NightsInBed :
                                 DayOfWeek(NightsInBed[k]) \in 0..4})
    /\ "weekend_midpoint" \in computed =>
           Len(cache.weekend_midpoint)
               = Cardinality({k \in DOMAIN NightsInBed :
                                 DayOfWeek(NightsInBed[k]) \in 5..6})
    /\ {"weekday_midpoint", "weekend_midpoint"} \subseteq computed =>
           Len(cache.weekday_midpoint) + Len(cache.weekend_midpoint) = Len(NightsInBed)

\* C14: social_jetlag is the absolute, hence non-negative, difference between
\* the weekend and the weekday sleep midpoint; when the weekday set or the
\* weekend set holds no night it is NaN, and reading it raises no error.
C14_SocialJetlagAbsolute ==
    /\ pc # "ShapeError"
    /\ "social_jetlag" \in computed =>
           /\ (weekday_midpoint(night_data) = <<>> \/ weekend_midpoint(night_data) = <<>>)
                  => cache.social_jetlag.nan
           /\ ~cache.social_jetlag.nan =>
                  \A k \in DOMAIN cache.social_jetlag.diff :
                      cache.social_jetlag.diff[k] >= 0

----------------------------------------------------------------------------
(* The cache specification: two instances are built from one table, the     *)
(* properties of the first are read in any order, some of the second        *)

\* the properties read on the second instance
PeerKeys == {"waso"}

\* worn rows in bed, asleep or awake
CacheFlags == {Flag(sib, TRUE, FALSE, sib) : sib \in BOOLEAN}

InitCache ==
    InitInputs({MaxRows}, {H(6)}, {H(12)}, CacheFlags, {<<H(6), H(18)>>}, {Frac(1, 2)})

NextCache ==
    \/ Construct
    \/ \E key \in MetricNames : Read(key)
    \/ \E key \in PeerKeys : ReadPeer(key)

SpecCache == InitCache /\ [][NextCache]_vars

C16_UnavailableWithoutDependencies ==
    [][(pc = "ok" /\ ~({"sleep_duration", "time_in_bed"} \subseteq computed))
          => \A m \in {"waso", "sleep_efficiency"} :
                 m \in computed' => cache'[m] = <<>>]_vars

\* C16 as amended: reading waso or sleep_efficiency on an instance on which
\* sleep_duration and time_in_bed have not both been computed computes and
\* caches the missing ones and yields the value computed from them.
C16_DependenciesComputedOnRead ==
    [][\A m \in {"waso", "sleep_efficiency"} :
          (pc = "ok" /\ m \notin computed /\ m \in computed') =>
              /\ {"sleep_duration", "time_in_bed"} \subseteq computed'
              /\ cache'.sleep_duration = sleep_duration(night_data, sampling_time)
              /\ cache'.time_in_bed = time_in_bed(night_data, sampling_time)
              /\ Len(cache'[m]) = Len(ValidNights)
              /\ m = "waso" =>
                     \A k \in DOMAIN ValidNights :
                         cache'.waso[k]
                             = cache'.time_in_bed[k] - cache'.sleep_duration[k]
              /\ m = "sleep_efficiency" =>
                     \A k \in DOMAIN ValidNights :
                         cache'.sleep_efficiency[k]
                             = PercentRatio(cache'.sleep_duration[k],
                                            cache'.time_in_bed[k])]_vars

\* waso was read before anything else: it and its two dependencies are the
\* only fields set, and it is a computed value
C16_Witness ==
    /\ pc = "ok"
    /\ computed = {"waso", "sleep_duration", "time_in_bed"}
    /\ Len(cache.waso) = Len(ValidNights)
    /\ \E k \in DOMAIN cache.waso : cache.waso[k] # 0

----------------------------------------------------------------------------
(* compute_sleep_metrics: the metrics and the night metadata of the export *)

\* the data_start_date column: the date of the first sample of the whole input
data_start_date(t) == DateOf(t[1].time)

RECURSIVE UniqueNights(_, _)
\* unique(subset=["night_date"], maintain_order=True): the night_date of the
\* first row of every night, in the order of the table
UniqueNights(t, seen) ==
    IF t = <<>> THEN <<>>
    ELSE IF Head(t).night_date \in seen THEN UniqueNights(Tail(t), seen)
         ELSE <<Head(t).night_date>>
                  \o UniqueNights(Tail(t), seen \cup {Head(t).night_date})

\* (night_date - data_start_date).dt.total_days() + 1
night_number(night_date, start_date) == (night_date - start_date) + 1

NightsMetadata(t, start_date) ==
    LET nights == UniqueNights(t, {})
    IN  [k \in DOMAIN nights |->
            [night_date |-> nights[k],
             night_number |-> night_number(nights[k], start_date)]]

RECURSIVE Chain(_)
\* itertools.chain.from_iterable(METRIC_MAPPING[metric] for metric in selected_metrics)
Chain(selected_metrics) ==
    IF selected_metrics = <<>> THEN <<>>
    ELSE METRIC_MAPPING[Head(selected_metrics)] \o Chain(Tail(selected_metrics))

\* the values of selected_metrics: the default and single categories
SelectedMetrics ==
    {<<"sleep_duration", "sleep_continuity", "sleep_timing">>,
     <<"sleep_duration">>, <<"sleep_timing">>}

\* compute_sleep_metrics from the return of the constructor on: the selected
\* metrics are read, then the night metadata is derived from night_data
ComputeSleepMetrics(selected_metrics) ==
    /\ pc = "ok"
    /\ LET s == GetAll(Instance(computed, cache), Chain(selected_metrics))
       IN  /\ computed' = s.computed
           /\ cache' = s.cache
           /\ pc' = IF s.raised = "none" THEN "exported" ELSE s.raised
           /\ nights_metadata' =
                  IF s.raised = "none"
                  THEN NightsMetadata(night_data, data_start_date(data))
                  ELSE nights_metadata
    /\ UNCHANGED <<data, step, night_start, night_end, nw_threshold, night_data,
                   sampling_time, longest, mid_in, mid_out, peer, circ_in, circ_out>>

NextExport ==
    \/ Construct
    \/ \E selected_metrics \in SelectedMetrics : ComputeSleepMetrics(selected_metrics)

SpecExport == Init /\ [][NextExport]_vars

\* C17: in the exported night metadata night_number = (night_date -
\* data_start_date in days) + 1, data_start_date being the date of the first
\* sample of the whole input; for every valid night it is at least 1, and
\* the night numbers are strictly increasing in the order of the nights.
C17_NightNumbers ==
    pc = "exported" =>
        /\ Len(nights_metadata) = Len(ValidNights)
        /\ \A k \in DOMAIN nights_metadata :
               /\ nights_metadata[k].night_date = ValidNights[k]
               /\ nights_metadata[k].night_number
                      = ValidNights[k] - DateOf(data[1].time) + 1
               /\ nights_metadata[k].night_number >= 1
        /\ \A k, m \in DOMAIN nights_metadata :
               k < m => nights_metadata[k].night_number < nights_metadata[m].night_number

----------------------------------------------------------------------------
(* Claims on the alignment of the per-night metrics *)

\* the per-night metrics
PerNightMetrics ==
    {"sleep_duration", "time_in_bed", "waso", "sleep_efficiency", "sleep_onset",
     "sleep_wakeup", "sleep_midpoint", "num_awakenings"}

\* C18: every per-night metric is a sequence with exactly one entry per valid
\* night in ascending night_date, so the i-th entries of any two of them
\* belong to the same night, also when a valid night has no sample with
\* spt_periods true.
C18_OneEntryPerValidNight ==
    /\ \A m \in PerNightMetrics \cap computed : Len(cache[m]) = Len(ValidNights)
    /\ {"sleep_onset", "time_in_bed"} \subseteq computed =>
           \A k \in DOMAIN cache.sleep_onset :
               /\ k \in DOMAIN cache.time_in_bed
               /\ cache.time_in_bed[k] # 0
               /\ \E i \in InBed(ValidNights[k]) :
                      cache.sleep_onset[k] = TimeOfDay(night_data[i].time)

----------------------------------------------------------------------------
(* The circular statistics of utils, on series of the times 00:00 and 12:00. *)
(* Their angles are 0 and pi: the cosines are 1 and -1 exactly, sin(0) is 0  *)
(* and the sine of the float nearest to pi is a positive residue of about    *)
(* 1.2e-16, which is what makes the mean of 00:00 and 12:00 come out as      *)
(* 06:00. The sums are kept exactly: sin_sum in residues, cos_sum in units.  *)

\* most times in a series
MaxTimes == 6

CircTimes == {H(0), H(12)}

CountOf(times, t) == Cardinality({i \in DOMAIN times : times[i] = t})

\* sum(np.sin(angle) for angle in angles), in residues; 0 for no angle
sin_sum(times) == CountOf(times, H(12))

\* sum(np.cos(angle) for angle in angles); 0 for no angle
cos_sum(times) == CountOf(times, H(0)) - CountOf(times, H(12))

\* _convert_minutes_to_time, on a whole number of seconds x = minutes * 60:
\* minutes % 1440, then hours, minutes and the truncated seconds
convert_minutes_to_time(x) ==
    LET y == x % SecPerDay
    IN  Time(y \div 3600, (y % 3600) \div 60, y % 60)

\* mean_minutes * 60 truncated to a whole second: arctan2(sin_sum, cos_sum)
\* is 0 for (0, 0) and for a positive cos_sum (up to a residue below a
\* second), pi / 2 for a residue over cos_sum = 0, and pi less a residue for
\* a negative cos_sum, which the division may leave at 720 minutes or just
\* below
MeanSeconds(times) ==
    IF cos_sum(times) > 0 \/ (cos_sum(times) = 0 /\ sin_sum(times) = 0) THEN {0}
    ELSE IF cos_sum(times) = 0 THEN {H(6)}
    ELSE {H(12), H(12) - 1}

\* what compute_circular_mean_time can return: it has no check of its input
\* and never raises
compute_circular_mean_time(times) ==
    {[raised |-> FALSE, time |-> convert_minutes_to_time(x)] : x \in MeanSeconds(times)}

\* a standard deviation that fails on times spread evenly round the clock
SdRaisingOnUniform(times) ==
    LET n == Len(times)
        c == IF cos_sum(times) < 0 THEN 0 - cos_sum(times) ELSE cos_sum(times)
    IN  IF n = 0 THEN [kind |-> "nan", r2 |-> Frac(0, 1)]
        ELSE IF c = 0 THEN [kind |-> "raised", r2 |-> Frac(0, 1)]
        ELSE [kind |-> "finite", r2 |-> Frac(c * c, n * n)]

\* compute_circular_sd_time: r = sqrt(sin_sum**2 + cos_sum**2) / n is 0.0 / 0,
\* NaN, for no input; a residue, below 1e-10, when cos_sum is 0; else
\* |cos_sum| / n, and the result sqrt(-2 ln r) / (2 pi / 1440) is kept as r
compute_circular_sd_time(times) ==
    LET n == Len(times)
        c == IF cos_sum(times) < 0 THEN 0 - cos_sum(times) ELSE cos_sum(times)
    IN  IF n = 0 THEN [kind |-> "nan", r2 |-> Frac(0, 1)]
        ELSE IF c = 0 THEN [kind |-> "inf", r2 |-> Frac(0, 1)]
        ELSE [kind |-> "finite", r2 |-> Frac(c * c, n * n)]

\* a call of compute_circular_mean_time
CircularMean ==
    /\ pc = "start"
    /\ \E m \in compute_circular_mean_time(circ_in) :
           circ_out' = [circ_out EXCEPT !.mean = m]
    /\ pc' = "mean"
    /\ UNCHANGED <<data, step, night_start, night_end, nw_threshold, night_data,
                   sampling_time, computed, cache, longest, mid_in, mid_out, peer,
                   nights_metadata, circ_in>>

\* a call of compute_circular_sd_time
CircularSd ==
    /\ pc = "start"
    /\ circ_out' = [circ_out EXCEPT !.sd = compute_circular_sd_time(circ_in)]
    /\ pc' = "sd"
    /\ UNCHANGED <<data, step, night_start, night_end, nw_threshold, night_data,
                   sampling_time, computed, cache, longest, mid_in, mid_out, peer,
                   nights_metadata, circ_in>>

InitCirc ==
    /\ circ_in \in UNION {[1..n -> CircTimes] : n \in 0..MaxTimes}
    /\ circ_out = NoCirc
    /\ pc = "start"
    /\ data = <<>>
    /\ step = H(6)
    /\ night_start = H(20)
    /\ night_end = H(8)
    /\ nw_threshold = Frac(1, 5)
    /\ night_data = <<>>
    /\ sampling_time = 5
    /\ computed = {}
    /\ cache = NoCache
    /\ longest = <<>>
    /\ mid_in = [start |-> 0, end |-> 0]
    /\ mid_out = NoMid
    /\ peer = NoInstance
    /\ nights_metadata = <<>>

NextCirc ==
    \/ CircularMean
    \/ CircularSd

SpecCirc == InitCirc /\ [][NextCirc]_vars

\* C19: compute_circular_mean_time called with an empty sequence of times
\* fails with an input error and returns no time-of-day, and
\* compute_circular_sd_time returns no number for an empty sequence.
C19_EmptySeriesRefused ==
    /\ (pc = "mean" /\ circ_in = <<>>) => circ_out.mean.raised
    /\ (pc = "sd" /\ circ_in = <<>>) => circ_out.sd.kind \in {"raised", "nan"}

\* the distance of the sum of the unit vectors of the times from the origin:
\* the times 00:00 and 12:00 point in opposite directions
ResultantLength(times) ==
    LET d == CountOf(times, H(0)) - CountOf(times, H(12))
    IN  IF d < 0 THEN 0 - d ELSE d

----------------------------------------------------------------------------
(* The fall-back specification: hourly samples, all in bed and asleep, from *)
(* any hour of the day before the clocks go back, over a window that holds  *)
(* the repeated hour                                                        *)

\* most rows of a table of the hourly grid
MaxDst == 26

\* a row in bed and asleep
AsleepFlags == {Flag(TRUE, TRUE, FALSE, TRUE)}

\* every hour of the day before the fall-back, counted from the first day
DstStarts == {(FallDay - 1 - FirstDay) * SecPerDay + h * 3600 : h \in 0..23}

DstWindows == {<<H(22), H(4)>>, <<H(0), H(6)>>}

InitDst ==
    InitInputs(1..MaxDst, {H(1)}, DstStarts, AsleepFlags, DstWindows, {Frac(1, 2)})

NextDst ==
    \/ Construct
    \/ SaveToJson(<<"sleep_duration", "time_in_bed", "sleep_onset", "sleep_wakeup">>)

SpecDst == InitDst /\ [][NextDst]_vars

\* the night whose window holds the instant the clocks go back
DstNight == NightDate(FallBack, night_start, night_end)

\* the rows of the input in one of the two occurrences of the repeated hour
RepeatedHourRows ==
    {i \in DOMAIN data : FallBack - 3600 <= data[i].time /\ data[i].time < FallBack + 3600}

\* the input holds the first and the last sample of the window of that night
DstNightComplete ==
    /\ \E i \in DOMAIN data :
           /\ NightDate(data[i].time, night_start, night_end) = DstNight
           /\ TimeOfDay(data[i].time) = night_start
    /\ \E i \in DOMAIN data :
           /\ NightDate(data[i].time, night_start, night_end) = DstNight
           /\ data[i].time >= FallBack
           /\ TimeOfDay(data[i].time) = (night_end - step) % SecPerDay

\* C22: the night window is applied to wall-clock time while durations
\* follow elapsed time: every sample of both occurrences of the repeated
\* hour that lies in the window belongs to the night of the fall-back, so
\* sleep_duration and time_in_bed of that night, fully asleep and fully
\* recorded, are the nominal window length plus 60 minutes, whereas
\* sleep_onset and sleep_wakeup are wall-clock times inside the window.
C22_FallBackNight ==
    pc = "ok" =>
        /\ \A i \in RepeatedHourRows :
               InWindow(TimeOfDay(data[i].time), night_start, night_end) =>
                   \E j \in DOMAIN night_data :
                       /\ night_data[j].time = data[i].time
                       /\ night_data[j].night_date = DstNight
        /\ \A k \in DOMAIN ValidNights :
               (ValidNights[k] = DstNight /\ DstNightComplete) =>
                   /\ "sleep_duration" \in computed =>
                          cache.sleep_duration[k] = WindowLength \div 60 + 60
                   /\ "time_in_bed" \in computed =>
                          cache.time_in_bed[k] = WindowLength \div 60 + 60
                   /\ "sleep_onset" \in computed =>
                          InWindow(cache.sleep_onset[k], night_start, night_end)
                   /\ "sleep_wakeup" \in computed =>
                          InWindow(cache.sleep_wakeup[k], night_start, night_end)

\* the same with the sampling interval derived correctly: it holds on every
\* table of the specification whose sampling_time is the interval
FallBackNightAtTrueSamplingTime == (sampling_time = step) => C22_FallBackNight

----------------------------------------------------------------------------
(* Claims on the sampling interval *)

\* C23: for every input sampled at a fixed interval of step seconds that
\* yields at least one valid night, the constructor returns an instance
\* whose sampling_time equals the interval, and so is positive, whatever the
\* time of day of the first sample and wherever the first two retained
\* samples fall relative to midnight and to the window boundaries.
C23_SamplingTimeIsInterval ==
    (pc # "start" /\ filter_nights(data, night_start, night_end, nw_threshold) # <<>>)
        => (pc = "ok" /\ sampling_time = step /\ sampling_time > 0)

----------------------------------------------------------------------------
(* Claims on the first row and on ties of keep_longest_sleep_window *)

\* the rows of the night of the first row that keep_longest_sleep_window returned
KeptOfFirstNight ==
    {longest[k] : k \in {m \in DOMAIN longest :
                            longest[m].night_date = night_data[1].night_date}}

\* the run of the first row is the one longest run of its night
FirstRunIsLongest ==
    /\ night_data[1].sleep_status
    /\ \A m \in DOMAIN night_data :
           (/\ night_data[m].night_date = night_data[1].night_date
            /\ night_data[m].sleep_status
            /\ m \notin RunOf(1))
               => Cardinality(RunOf(m)) < Cardinality(RunOf(1))

\* C24: keep_longest_sleep_window never returns the first row of the table
\* it is given; when the longest sleep run of a night has L samples and
\* starts at the table's first row, exactly L - 1 rows of that night are
\* returned, all with sleep_status true and all from that run.
C24_FirstRowNeverReturned ==
    (pc = "longest" /\ night_data # <<>>) =>
        /\ \A k \in DOMAIN longest : longest[k].time # night_data[1].time
        /\ FirstRunIsLongest =>
               /\ Cardinality(KeptOfFirstNight) = Cardinality(RunOf(1)) - 1
               /\ KeptOfFirstNight = {night_data[j] : j \in RunOf(1) \ {1}}
               /\ \A r \in KeptOfFirstNight : r.sleep_status

\* the bout of night d a stable sort of the bouts in the order of the table
\* leaves last among those of the greatest length
LastLongestBout(d) == MaxOf(LongestBouts(night_data, d))

\* C25: keep_longest_sleep_window is deterministic under ties: when two or
\* more sleep runs of a night share the greatest length, the retained run is
\* the same one for the same input, the last among the equals in sort
\* order, whatever the order in which the grouping enumerates the runs.
C25_DeterministicUnderTies ==
    pc = "longest" =>
        longest = KeptFrom(night_data, 1,
                           [d \in SleepNights(night_data) |-> LastLongestBout(d)])

----------------------------------------------------------------------------
(* The degenerate specification: night_start equal to night_end, tables on  *)
(* the 6-hour grid, segmented directly or by the constructor                *)

DegenerateWindows == {<<a, a>> : a \in GridTimes}

InitDegenerate ==
    InitInputs(1..MaxLen, {H(6)}, GridTimes, WearFlags, DegenerateWindows, SegThresholds)

NextDegenerate ==
    \/ FilterNights
    \/ Construct

SpecDegenerate == InitDegenerate /\ [][NextDegenerate]_vars

\* C26: with night_start equal to night_end the non-crossing filter
\* night_start <= t < night_end is false for every sample: _filter_nights
\* returns no row for every input, constructing SleepMetrics always ends in
\* the no-valid-nights ValueError, and the window is never a full day.
C26_EqualEndsNoNight ==
    night_start = night_end =>
        /\ \A i \in DOMAIN data :
               ~(night_start <= TimeOfDay(data[i].time)
                     /\ TimeOfDay(data[i].time) < night_end)
        /\ pc = "filtered" => night_data = <<>>
        /\ pc \notin {"start", "filtered"} => pc = "ValueError"
        /\ night_data = <<>>

\* a table of worn samples over a whole day was refused
C26_Witness ==
    /\ pc = "ValueError"
    /\ night_start = night_end
    /\ Len(data) >= 4
    /\ \A i \in DOMAIN data : ~data[i].nonwear_status
    /\ \E i \in DOMAIN data : TimeOfDay(data[i].time) = night_start

----------------------------------------------------------------------------
(* Claims on the ranges of the duration metrics *)

\* C27: for every instance and every valid night, 0 <= sleep_duration <=
\* time_in_bed, hence waso >= 0 and, when time_in_bed > 0,
\* 0 <= sleep_efficiency <= 100.
C27_DurationsInRange ==
    pc = "ok" =>
        \A k \in DOMAIN ValidNights :
            /\ "sleep_duration" \in computed => cache.sleep_duration[k] >= 0
            /\ "time_in_bed" \in computed => cache.time_in_bed[k] >= 0
            /\ {"sleep_duration", "time_in_bed"} \subseteq computed =>
                   cache.sleep_duration[k] <= cache.time_in_bed[k]
            /\ "waso" \in computed => cache.waso[k] >= 0
            /\ ("sleep_efficiency" \in computed /\ cache.time_in_bed[k] > 0) =>
                   LET e == cache.sleep_efficiency[k]
                   IN  /\ ~e.nan
                       /\ e.den > 0
                       /\ 0 <= e.num
                       /\ e.num <= 100 * e.den

====
